---- MODULE Spec2Model ----
(***************************************************************************)
(* Model of astrbot_plugin_welcome (src/main.py): the WelcomePlugin class.  *)
(*                                                                         *)
(* State: the in-memory value self.group_welcomes, the backing file         *)
(* group_welcomes.json, the plugin's lifecycle phase, and the results the   *)
(* last handler invocation yielded.  One action per handler / lifecycle     *)
(* method.  Text is a sequence of one-character strings so that strip(),    *)
(* the JSON string escaping of json.dump and the unescaping of json.load    *)
(* are computed rather than assumed.                                        *)
(***************************************************************************)
EXTENDS Integers, Sequences, FiniteSets, TLC

VARIABLES
    phase,           \* "constructed" | "running" | "terminated"
    group_welcomes,  \* self.group_welcomes: [kind, entries]
    file,            \* content of self.data_file: [kind, entries]
    last,            \* the last handler invocation and its inputs
    out,             \* the results that invocation yielded, in order
    prov,            \* history: where each group's text comes from
    run,             \* history: what load did at initialize, whether a set succeeded
    restarts         \* number of process restarts so far

vars == <<phase, group_welcomes, file, last, out, prov, run, restarts>>

\* Number of process restarts explored.
MaxRestarts == 1

----------------------------------------------------------------------------
(* Inputs *)

\* Group identifiers the commands and events are issued for.
Groups == {"100", "200"}

\* get_group_id() outside a group chat.
NoGroup == ""

Roles == {"admin", "member"}

\* Characters: "S" stands for a lone surrogate code point (a Python str may
\* hold one; UTF-8 cannot encode it), "\"" and "\\" need escaping in JSON.
WHITESPACE == {" "}

T_EMPTY == << >>
T_BLANK == <<" ">>
T_RAW   == <<" ", "\"", "H", " ">>
T_SUR   == <<"S">>

Texts == {T_EMPTY, T_BLANK, T_RAW, T_SUR}

\* self.config.get("default_message", "欢迎新人~")
default_message == <<"W">>

EmptyMap == [g \in {} |-> << >>]

----------------------------------------------------------------------------
(* Pure helpers *)

\* str.strip(): drop leading and trailing whitespace.
RECURSIVE LStrip(_)
LStrip(s) ==
    IF s = << >> THEN << >>
    ELSE IF Head(s) \in WHITESPACE THEN LStrip(Tail(s)) ELSE s

RECURSIVE RStrip(_)
RStrip(s) ==
    IF s = << >> THEN << >>
    ELSE IF s[Len(s)] \in WHITESPACE THEN RStrip(SubSeq(s, 1, Len(s) - 1)) ELSE s

strip(s) == RStrip(LStrip(s))

\* Mutant: a dump that escapes nothing.
EncodeNoEscape(s) == s

\* json.dump(..., ensure_ascii=False): the body of a JSON string.  Quote and
\* backslash are escaped; every other character, a lone surrogate included,
\* is written as it is.
RECURSIVE encode_basestring(_)
encode_basestring(s) ==
    IF s = << >> THEN << >>
    ELSE (IF Head(s) \in {"\"", "\\"} THEN <<"\\", Head(s)>> ELSE <<Head(s)>>)
         \o encode_basestring(Tail(s))

\* json.load: the body of a JSON string back to a str.  A backslash escape
\* yields the escaped character (<<"\\", "S">> models the escape \ud800).
RECURSIVE scanstring(_)
scanstring(s) ==
    IF s = << >> THEN << >>
    ELSE IF Head(s) = "\\" /\ Len(s) >= 2
         THEN <<s[2]>> \o scanstring(Tail(Tail(s)))
         ELSE <<Head(s)>> \o scanstring(Tail(s))

\* Whether the utf-8 text file accepts the chunk: a lone surrogate raises
\* UnicodeEncodeError in f.write().
Utf8Writable(s) == \A i \in 1..Len(s) : s[i] # "S"

\* dict.get(key, default)
DictGet(entries, key, default) ==
    IF key \in DOMAIN entries THEN entries[key] ELSE default

\* d[key] = value
DictSet(entries, key, value) ==
    [k \in (DOMAIN entries) \cup {key} |-> IF k = key THEN value ELSE entries[k]]

----------------------------------------------------------------------------
(* In-memory values and file contents *)

Dict(entries) == [kind |-> "dict", entries |-> entries]

\* A list or a str: json.load returns it and len() accepts it, but it has
\* neither .get nor item assignment by a str key.
SizedValue == [kind |-> "sized", entries |-> EmptyMap]

FileAbsent  == [kind |-> "absent",  entries |-> EmptyMap]
FileSized   == [kind |-> "sized",   entries |-> EmptyMap]   \* JSON array or string
FileScalar  == [kind |-> "scalar",  entries |-> EmptyMap]   \* JSON number, true, false, null
FileGarbage == [kind |-> "garbage", entries |-> EmptyMap]   \* not JSON (also a truncated write)
FileObject(entries) == [kind |-> "object", entries |-> entries]

\* The string bodies a file written by hand or by an earlier run may hold.
FileStrings ==
    {encode_basestring(t) : t \in Texts \ {T_SUR}} \cup {<<"\\", "S">>}

PartialMaps(S, V) == UNION {[D -> V] : D \in SUBSET S}

InitialFiles ==
    {FileAbsent, FileSized, FileScalar, FileGarbage}
      \cup {FileObject(e) : e \in PartialMaps(Groups, FileStrings)}

\* A JSON string body json.load accepts: no bare quote, no dangling backslash.
RECURSIVE WellFormedBody(_)
WellFormedBody(s) ==
    IF s = << >> THEN TRUE
    ELSE IF Head(s) = "\\" THEN Len(s) >= 2 /\ WellFormedBody(Tail(Tail(s)))
    ELSE Head(s) # "\"" /\ WellFormedBody(Tail(s))

\* _load_group_welcomes (lines 49-60).  readOk: whether open()/read succeed.
\* Yields [status, value]; status names the branch taken: "absent" (line 57),
\* "ok" (line 55), "unreadable" or "failed" (line 60, after an I/O error or
\* after json.load / len() raised).
LoadGroupWelcomes(f, readOk) ==
    IF f.kind = "absent" THEN [status |-> "absent", value |-> Dict(EmptyMap)]
    ELSE IF ~readOk THEN [status |-> "unreadable", value |-> Dict(EmptyMap)]
    ELSE IF f.kind = "garbage"
            \/ \E g \in DOMAIN f.entries : ~WellFormedBody(f.entries[g])
         THEN [status |-> "failed", value |-> Dict(EmptyMap)]   \* JSONDecodeError
    ELSE IF f.kind = "scalar"
         THEN [status |-> "failed", value |-> Dict(EmptyMap)]   \* len() raises TypeError
    ELSE IF f.kind = "sized"
         THEN [status |-> "ok", value |-> SizedValue]
    ELSE [status |-> "ok",
          value  |-> Dict([g \in DOMAIN f.entries |-> scanstring(f.entries[g])])]

\* What json.dump writes for the value when every chunk is accepted.
JsonDump(v) ==
    IF v.kind = "dict"
    THEN FileObject([g \in DOMAIN v.entries |-> encode_basestring(v.entries[g])])
    ELSE FileSized

DumpWritable(v) == \A g \in DOMAIN v.entries : Utf8Writable(v.entries[g])

SaveFaults == {"none", "open", "write"}

\* Mutant: a save that skips the write when there is nothing to store.
SaveSkipsEmpty(v, f, fault) ==
    IF fault = "open" THEN [status |-> "open_failed", file |-> f]
    ELSE IF fault = "write" THEN [status |-> "write_failed", file |-> FileGarbage]
    ELSE IF ~DumpWritable(v) THEN [status |-> "encode_failed", file |-> FileGarbage]
    ELSE IF v.entries = EmptyMap THEN [status |-> "saved", file |-> f]
    ELSE [status |-> "saved", file |-> JsonDump(v)]

\* _save_group_welcomes (lines 62-69).  fault: the I/O error the environment
\* raises, if any.  Yields [status, file].  open(..., 'w') truncates; an
\* error raised while json.dump writes leaves a truncated file.
SaveGroupWelcomes(v, f, fault) ==
    IF fault = "open" THEN [status |-> "open_failed", file |-> f]
    ELSE IF fault = "write" THEN [status |-> "write_failed", file |-> FileGarbage]
    ELSE IF ~DumpWritable(v) THEN [status |-> "encode_failed", file |-> FileGarbage]
    ELSE [status |-> "saved", file |-> JsonDump(v)]

----------------------------------------------------------------------------
(* Results and handler inputs *)

\* event.plain_result(text): kind names the fixed part of the text.
PlainResult(kind, text) == [kind |-> kind, at |-> "", text |-> text]

\* event.chain_result([Comp.At(qq=user_id), Comp.Plain(text=...)])
ChainResult(user_id, text) == [kind |-> "chain", at |-> user_id, text |-> text]

GROUP_ONLY == PlainResult("group_only", << >>)   \* "此命令仅在群聊中可用"
DENIED     == PlainResult("denied", << >>)       \* "抱歉，你的权限不足"
EMPTY_TEXT == PlainResult("empty", << >>)        \* "欢迎语不能为空"
SET_FAILED == PlainResult("set_failed", << >>)   \* "设置失败: ..."
VIEW_FAILED == PlainResult("view_failed", << >>) \* "查看失败: ..."
SetOk(message) == PlainResult("set_ok", message)     \* "已设置本群欢迎语:\n" + message
Current(text)  == PlainResult("current", text)       \* "当前欢迎语:\n" + current

\* A field of the raw payload: absent, JSON null, a number, or a string.
Raw(type, lit) == [type |-> type, lit |-> lit]
MISSING == Raw("missing", "")
NULL    == Raw("null", "")

\* str(raw_message.get(key, "")) (line 86)
py_str(raw) ==
    CASE raw.type = "missing" -> ""
      [] raw.type = "null"    -> "None"
      [] OTHER                -> raw.lit

DecimalLiterals == {"0", "100", "200", "12345"}

\* int(raw_message.get(key, 0)) (line 87): [ok, val]; ValueError for a string
\* that is no number, TypeError for None.
py_int(raw) ==
    CASE raw.type = "missing" -> [ok |-> TRUE, val |-> "0"]
      [] raw.type = "null"    -> [ok |-> FALSE, val |-> "0"]
      [] raw.type = "int"     -> [ok |-> TRUE, val |-> raw.lit]
      [] OTHER                -> [ok |-> raw.lit \in DecimalLiterals, val |-> raw.lit]

Event(payload, post_type, notice_type, group_id, user_id) ==
    [payload |-> payload, post_type |-> post_type, notice_type |-> notice_type,
     group_id |-> group_id, user_id |-> user_id]

NoEvent == Event("none", "", "", MISSING, MISSING)

USER == Raw("int", "12345")

\* (group_id, user_id) fields of the group_increase notices explored.
JoinFields ==
    {<<Raw("int", g), USER>> : g \in Groups}
      \cup {<<MISSING, USER>>, <<Raw("str", ""), USER>>, <<NULL, USER>>}
      \cup {<<Raw("int", "100"), u>> :
              u \in {MISSING, NULL, Raw("int", "0"), Raw("str", "abc"), Raw("str", "12345")}}

Events ==
    {Event(p, "", "", MISSING, MISSING) : p \in {"no_raw", "not_dict", "empty_dict"}}
      \cup {Event("dict", "message", "", Raw("int", "100"), USER),
            Event("dict", "notice", "group_decrease", Raw("int", "100"), USER)}
      \cup {Event("dict", "notice", "group_increase", f[1], f[2]) : f \in JoinFields}

Invocation(op, group, role, text, ev, save) ==
    [op |-> op, group |-> group, role |-> role, text |-> text, ev |-> ev, save |-> save]

----------------------------------------------------------------------------
(* Handlers, as functions of their inputs and the state they read *)

\* Mutant: the permission check made before the group check.
GateRoleFirst(group_id, role) ==
    IF role # "admin" THEN "denied"
    ELSE IF group_id = NoGroup THEN "group_only"
    ELSE "pass"

\* The checks both commands start with (lines 112-120, 143-151).
Gate(group_id, role) ==
    IF group_id = NoGroup THEN "group_only"
    ELSE IF role # "admin" THEN "denied"
    ELSE "pass"

\* Mutant: the emptiness check made without strip().
IsEmptyUntrimmed(message) == message = << >>

\* Mutant: no emptiness check at all.
IsBlankNever(message) == FALSE

\* not message.strip() (line 123)
IsBlank(message) == strip(message) = << >>

Outcome(results, value, f, save) ==
    [out |-> results, value |-> value, file |-> f, save |-> save]

\* Mutant: the file written before the entry is stored.
SetWelcomeSavesFirst(group_id, role, message, value, f, fault) ==
    LET gate == Gate(group_id, role) IN
    IF gate = "group_only" THEN Outcome(<<GROUP_ONLY>>, value, f, "none")
    ELSE IF gate = "denied" THEN Outcome(<<DENIED>>, value, f, "none")
    ELSE IF IsBlank(message) THEN Outcome(<<EMPTY_TEXT>>, value, f, "none")
    ELSE IF value.kind # "dict"
         THEN Outcome(<<SET_FAILED>>, value, f, "none")
    ELSE LET new   == Dict(DictSet(value.entries, group_id, message))
             saved == SaveGroupWelcomes(value, f, fault)
         IN  Outcome(<<SetOk(message)>>, new, saved.file, saved.status)

\* set_welcome (lines 107-136): the results yielded, the new in-memory value
\* and file, and what the save did ("none": no save was made).
set_welcome(group_id, role, message, value, f, fault) ==
    LET gate == Gate(group_id, role) IN
    IF gate = "group_only" THEN Outcome(<<GROUP_ONLY>>, value, f, "none")
    ELSE IF gate = "denied" THEN Outcome(<<DENIED>>, value, f, "none")
    ELSE IF IsBlank(message) THEN Outcome(<<EMPTY_TEXT>>, value, f, "none")
    ELSE IF value.kind # "dict"
         THEN Outcome(<<SET_FAILED>>, value, f, "none")   \* TypeError at line 128
    ELSE LET new   == Dict(DictSet(value.entries, group_id, message))
             saved == SaveGroupWelcomes(new, f, fault)
         IN  Outcome(<<SetOk(message)>>, new, saved.file, saved.status)

\* view_welcome (lines 138-159): the results yielded.
view_welcome(group_id, role, value) ==
    LET gate == Gate(group_id, role) IN
    IF gate = "group_only" THEN <<GROUP_ONLY>>
    ELSE IF gate = "denied" THEN <<DENIED>>
    ELSE IF value.kind # "dict" THEN <<VIEW_FAILED>>     \* AttributeError at line 154
    ELSE <<Current(DictGet(value.entries, group_id, default_message))>>

\* handle_group_increase (lines 71-105): the results yielded.
handle_group_increase(ev, value) ==
    IF ev.payload = "no_raw" THEN << >>                          \* line 75
    ELSE IF ev.payload \in {"empty_dict", "not_dict"} THEN << >> \* line 79
    ELSE IF ~(ev.post_type = "notice" /\ ev.notice_type = "group_increase") THEN << >>
    ELSE LET group_id == py_str(ev.group_id)
             user_id  == py_int(ev.user_id)
         IN  IF ~user_id.ok THEN << >>                           \* raised, logged at line 105
             ELSE IF group_id = "" \/ user_id.val = "0" THEN << >>
             ELSE IF value.kind # "dict" THEN << >>              \* AttributeError at line 93
             ELSE <<ChainResult(user_id.val,
                      <<" ">> \o DictGet(value.entries, group_id, default_message))>>

----------------------------------------------------------------------------
(* History kept for the properties *)

Prov(src, text) == [src |-> src, text |-> text]

NoProv == [g \in Groups |-> Prov("none", << >>)]

\* The entries the file holds for each group when initialize() runs.
ProvOfFile(f) ==
    [g \in Groups |->
        IF f.kind = "object" /\ g \in DOMAIN f.entries
        THEN Prov("file", scanstring(f.entries[g]))
        ELSE Prov("none", << >>)]

Run(load, setDone, fileAtInit, atTerminate, saved) ==
    [load |-> load, setDone |-> setDone, fileAtInit |-> fileAtInit,
     atTerminate |-> atTerminate, saved |-> saved]

NoValue == [kind |-> "none", entries |-> EmptyMap]

----------------------------------------------------------------------------
(* Actions *)

\* __init__ (lines 18-30) has run; initialize() has not.
Init ==
    /\ phase = "constructed"
    /\ group_welcomes = Dict(EmptyMap)
    /\ file \in InitialFiles
    /\ last = Invocation("none", NoGroup, "admin", << >>, NoEvent, "none")
    /\ out = << >>
    /\ prov = NoProv
    /\ run = Run("none", FALSE, FileAbsent, NoValue, "none")
    /\ restarts = 0

\* initialize (lines 32-39).  mkdir can fail only where no file exists yet.
Initialize(mkdirOk, readOk) ==
    /\ phase = "constructed"
    /\ mkdirOk \/ file.kind = "absent"
    /\ LET loaded == LoadGroupWelcomes(file, readOk) IN
       /\ group_welcomes' = IF mkdirOk THEN loaded.value ELSE group_welcomes
       /\ run' = Run(IF mkdirOk THEN loaded.status ELSE "skipped",
                     FALSE, file, NoValue, "none")
    /\ phase' = "running"
    /\ last' = Invocation("initialize", NoGroup, "admin", << >>, NoEvent, run.saved)
    /\ out' = << >>
    /\ prov' = ProvOfFile(file)
    /\ UNCHANGED <<file, restarts>>

SetWelcome(group_id, role, message, fault) ==
    /\ phase = "running"
    /\ LET r == set_welcome(group_id, role, message, group_welcomes, file, fault) IN
       /\ group_welcomes' = r.value
       /\ file' = r.file
       /\ out' = r.out
       /\ last' = Invocation("set", group_id, role, message, NoEvent, r.save)
       /\ IF r.out = <<SetOk(message)>>
          THEN /\ prov' = [prov EXCEPT ![group_id] = Prov("set", message)]
               /\ run' = Run(run.load, TRUE, FileAbsent, NoValue, "none")
          ELSE UNCHANGED <<prov, run>>
    /\ UNCHANGED <<phase, restarts>>

ViewWelcome(group_id, role) ==
    /\ phase = "running"
    /\ out' = view_welcome(group_id, role, group_welcomes)
    /\ last' = Invocation("view", group_id, role, << >>, NoEvent, "none")
    /\ UNCHANGED <<phase, group_welcomes, file, prov, run, restarts>>

HandleGroupIncrease(ev) ==
    /\ phase = "running"
    /\ out' = handle_group_increase(ev, group_welcomes)
    /\ last' = Invocation("join", NoGroup, "admin", << >>, ev, "none")
    /\ UNCHANGED <<phase, group_welcomes, file, prov, run, restarts>>

\* terminate (lines 41-47)
Terminate(fault) ==
    /\ phase = "running"
    /\ LET saved == SaveGroupWelcomes(group_welcomes, file, fault) IN
       /\ file' = saved.file
       /\ last' = Invocation("terminate", NoGroup, "admin", << >>, NoEvent, saved.status)
       /\ run' = [run EXCEPT !.atTerminate = group_welcomes, !.saved = saved.status]
    /\ phase' = "terminated"
    /\ out' = << >>
    /\ UNCHANGED <<group_welcomes, prov, restarts>>

\* The host starts a new process: __init__ runs again (lines 18-30).
Restart ==
    /\ phase = "terminated"
    /\ restarts < MaxRestarts
    /\ phase' = "constructed"
    /\ group_welcomes' = Dict(EmptyMap)
    /\ last' = Invocation("none", NoGroup, "admin", << >>, NoEvent, "none")
    /\ out' = << >>
    /\ prov' = NoProv
    /\ run' = Run("none", FALSE, FileAbsent, run.atTerminate, run.saved)
    /\ restarts' = restarts + 1
    /\ UNCHANGED file

\* The faults that can show in a set command: only a command that reaches
\* line 129 writes the file.
FaultsFor(group_id, role, message) ==
    IF set_welcome(group_id, role, message, group_welcomes, file, "none").save = "none"
    THEN {"none"}
    ELSE SaveFaults

Next ==
    \/ \E mkdirOk \in BOOLEAN, readOk \in BOOLEAN : Initialize(mkdirOk, readOk)
    \/ \E g \in Groups \cup {NoGroup}, role \in Roles, m \in Texts :
          \E fault \in FaultsFor(g, role, m) : SetWelcome(g, role, m, fault)
    \/ \E g \in Groups \cup {NoGroup}, role \in Roles : ViewWelcome(g, role)
    \/ \E ev \in Events : HandleGroupIncrease(ev)
    \/ \E fault \in SaveFaults : Terminate(fault)
    \/ Restart

Spec == Init /\ [][Next]_vars

----------------------------------------------------------------------------
(* Properties *)

AllSpaces(t) == \A i \in 1..Len(t) : t[i] = " "

ConfirmedSet == last.op = "set" /\ out = <<SetOk(last.text)>>

\* What a later process reads from the file when the read itself succeeds.
Restored == LoadGroupWelcomes(file, TRUE)

\* C1: an admin's view in group g yields the raw text of the most recent
\* successful set for g, and default_message when g was never set and the file
\* loaded at initialize had no entry for g; a successful set inserts or
\* replaces the entry of its own group and leaves every other entry alone.
C1_ViewYieldsLatestSet ==
    [][ /\ (last'.op = "view" /\ last'.role = "admin" /\ last'.group \in Groups) =>
             LET p == prov'[last'.group] IN
             /\ p.src = "set"  => out' = <<Current(p.text)>>
             /\ p.src = "none" => out' = <<Current(default_message)>>
        /\ (last'.op = "set" /\ out' = <<SetOk(last'.text)>>) =>
             /\ DOMAIN group_welcomes'.entries
                  = DOMAIN group_welcomes.entries \cup {last'.group}
             /\ group_welcomes'.entries[last'.group] = last'.text
             /\ \A k \in DOMAIN group_welcomes.entries \ {last'.group} :
                  group_welcomes'.entries[k] = group_welcomes.entries[k]
      ]_vars

C4_BlankSetRejected ==
    [][ (/\ last'.op = "set" /\ last'.group \in Groups /\ last'.role = "admin"
         /\ AllSpaces(last'.text))
            => /\ out' = <<EMPTY_TEXT>>
               /\ group_welcomes' = group_welcomes
               /\ file' = file ]_vars

C4_Witness ==
    /\ last.op = "set" /\ last.group \in Groups /\ last.role = "admin"
    /\ last.text = T_BLANK
    /\ out = <<EMPTY_TEXT>>
    /\ group_welcomes.kind = "dict" /\ group_welcomes.entries # EmptyMap

\* C5: for set and view alike, no group identifier yields the "group chat
\* only" response whatever the role; a group identifier with a role other
\* than admin yields the permission-denied response; either way exactly one
\* response is yielded and the in-memory mapping and the file are unchanged.
C5_GateRejects ==
    [][ (last'.op \in {"set", "view"}) =>
          /\ last'.group = NoGroup =>
               /\ out' = <<GROUP_ONLY>>
               /\ group_welcomes' = group_welcomes /\ file' = file
          /\ (last'.group # NoGroup /\ last'.role # "admin") =>
               /\ out' = <<DENIED>>
               /\ group_welcomes' = group_welcomes /\ file' = file ]_vars

C5_Witness ==
    /\ last.op = "set" /\ last.group = NoGroup /\ last.role = "member"
    /\ last.text = T_RAW
    /\ out = <<GROUP_ONLY>>

\* The event shape C6 and C7 name: a dictionary payload, a group_increase
\* notice, a group identifier that is a non-empty number or string, a member
\* identifier that is a non-zero number.
WellFormedId(raw) ==
    \/ raw.type = "int"
    \/ raw.type = "str" /\ raw.lit \in DecimalLiterals

JoinShape(ev) ==
    /\ ev.payload = "dict"
    /\ ev.post_type = "notice" /\ ev.notice_type = "group_increase"
    /\ WellFormedId(ev.group_id) /\ ev.group_id.lit # ""
    /\ WellFormedId(ev.user_id) /\ ev.user_id.lit # "0"

\* C6: the join handler yields a reply if and only if the event has the join
\* shape; no event changes the in-memory mapping or the file.
C6_ReplyIffJoinShape ==
    [][ (last'.op = "join") =>
          /\ (out' # << >>) <=> JoinShape(last'.ev)
          /\ group_welcomes' = group_welcomes /\ file' = file ]_vars

\* C7: a join event for group g and member u yields exactly one reply: the
\* mention of u, then a space and the text of the most recent successful set
\* for g, or default_message when g has no entry.
C7_JoinReply ==
    (last.op = "join" /\ JoinShape(last.ev) /\ last.ev.group_id.lit \in Groups) =>
        LET p == prov[last.ev.group_id.lit] IN
        /\ p.src = "set" =>
             out = <<ChainResult(last.ev.user_id.lit, <<" ">> \o p.text)>>
        /\ p.src = "none" =>
             out = <<ChainResult(last.ev.user_id.lit, <<" ">> \o default_message)>>

\* C8 as stated: no entry of the in-memory mapping is the empty string.
C8_NoEmptyEntry ==
    \A g \in DOMAIN group_welcomes.entries : group_welcomes.entries[g] # << >>

\* C8 amended: an entry of the in-memory mapping that is empty, or blank
\* after trimming, is an entry the file held when initialize loaded it; no
\* set command stores one.
C8_BlankEntryIsLoaded ==
    \A g \in DOMAIN group_welcomes.entries :
        AllSpaces(group_welcomes.entries[g])
            => prov[g] = Prov("file", group_welcomes.entries[g])

C8_Witness ==
    /\ ConfirmedSet
    /\ \E g \in DOMAIN group_welcomes.entries : group_welcomes.entries[g] = << >>

\* C9: whatever the file holds, load() leaves a mapping in memory: the parsed
\* content when the file is a readable JSON object of strings, the empty
\* mapping otherwise; a later lookup never fails.
C9_LoadLeavesMapping ==
    /\ phase = "running" => group_welcomes.kind = "dict"
    /\ (last.op = "initialize" /\ run.load # "skipped") =>
          group_welcomes =
             IF file.kind = "object" /\ run.load = "ok"
             THEN Dict([g \in DOMAIN file.entries |-> scanstring(file.entries[g])])
             ELSE Dict(EmptyMap)
    /\ VIEW_FAILED \notin {out[i] : i \in 1..Len(out)}

\* C10: once terminate() has written the file without error, the file holds
\* exactly the in-memory mapping, even when no set succeeded in the run: the
\* empty mapping when load failed at initialize, and the mapping it held
\* before initialize when load succeeded.
C10_TerminateWrites ==
    (phase = "terminated" /\ last.op = "terminate" /\ last.save = "saved") =>
        /\ Restored = [status |-> "ok", value |-> group_welcomes]
        /\ (run.load \in {"failed", "unreadable"} /\ ~run.setDone)
              => file = FileObject(EmptyMap)
        /\ (run.load = "ok" /\ ~run.setDone) =>
              Restored.value = LoadGroupWelcomes(run.fileAtInit, TRUE).value

C10_Witness ==
    /\ phase = "terminated" /\ last.op = "terminate" /\ last.save = "saved"
    /\ run.load = "unreadable" /\ ~run.setDone
    /\ run.fileAtInit.kind = "object" /\ run.fileAtInit.entries # EmptyMap

====
